---------------------------- MODULE Spec2Model ----------------------------
(***************************************************************************)
(* Session progression state machine of the bubble graph engine            *)
(* (app/services/session_service.py, app/services/graph_service.py,        *)
(* app/api/sessions.py).                                                   *)
(*                                                                         *)
(* The database is modelled as its tables: student_states (a sequence of   *)
(* rows, the row id is the index), coin_transactions, the Session row and   *)
(* the BubbleNode rows of the one published session.  A commit writes the  *)
(* attributes the handler assigned or mutated on the loaded object.        *)
(* select(...).first() has no ORDER BY, so when several rows match it      *)
(* yields any of them.  The EventLog table is written by _log_event only   *)
(* and read by none of the modelled operations; it is left out.            *)
(* completion_percentage is a float in the code; it is modelled as the     *)
(* exact rational it approximates, kept as a reduced fraction.             *)
(* Strings that the code inspects (responses, outputs) are sequences of    *)
(* one-character strings.                                                  *)
(*                                                                         *)
(* GraphService is modelled twice over the graphs the request schema       *)
(* accepts: validate_graph as the function it computes (SpecValidate), and *)
(* get_valid_paths as the steps of its recursion (SpecPaths).              *)
(* get_session_analytics is modelled as a function of the StudentState     *)
(* rows (SpecAnalytics).  SpecFollow joins the two services: a posted      *)
(* graph becomes a session, and a student works through it.                *)
(***************************************************************************)
EXTENDS Integers, Sequences, FiniteSets, TLC

VARIABLES
    session,            \* the Session row: its graph_json
    bubble_nodes,       \* BubbleNode rows of the session, by node_id
    student_states,     \* StudentState table
    coin_transactions,  \* CoinTransaction table
    clock,              \* datetime.utcnow(), as a logical clock
    last,               \* the last call handled: its inputs, the row it used, its response
    requests,           \* handlers in flight (interleaved executions only)
    graph_data,         \* the BubbleGraphSchema given to GraphService
    stack,              \* call stack of get_valid_paths and its dfs_paths
    paths               \* the paths list of get_valid_paths

vars == <<session, bubble_nodes, student_states, coin_transactions, clock, last, requests,
          graph_data, stack, paths>>

-----------------------------------------------------------------------------
(* Bounds *)

MaxClock == 4           \* handler invocations in one behaviour
MaxFailedAttempts == 2  \* failed attempts recorded per node
MaxRequests == 2        \* handlers in flight at once
MaxConcClock == 3       \* handler invocations in one interleaved behaviour
MaxTotalTime == 2       \* total_time_spent of one StudentState

Students == {1}
SessionId == 1

None == "None"

-----------------------------------------------------------------------------
(* Python helpers *)

Range(seq) == {seq[i] : i \in DOMAIN seq}

IsSpace(c) == c = " "

RECURSIVE LStrip(_)
LStrip(s) == IF s # <<>> /\ IsSpace(Head(s)) THEN LStrip(Tail(s)) ELSE s

RECURSIVE RStrip(_)
RStrip(s) ==
    IF s # <<>> /\ IsSpace(s[Len(s)]) THEN RStrip(SubSeq(s, 1, Len(s) - 1)) ELSE s

\* str.strip()
Strip(s) == RStrip(LStrip(s))

LowerChar(c) == IF c = "A" THEN "a" ELSE IF c = "B" THEN "b" ELSE c

\* str.lower()
Lower(s) == [i \in DOMAIN s |-> LowerChar(s[i])]

NoneStr == <<"None">>   \* None of an Optional[str] whose characters are inspected

\* truthiness of an Optional[str]
Truthy(s) == s # NoneStr /\ s # <<>>

RECURSIVE Gcd(_, _)
Gcd(a, b) == IF b = 0 THEN a ELSE Gcd(b, a % b)

\* the rational num/den, reduced (den > 0, num >= 0)
Fraction(num, den) ==
    LET g == Gcd(num, den) IN [num |-> num \div g, den |-> den \div g]


-----------------------------------------------------------------------------
(* The published session: graph_json and BubbleNode rows *)

NoTime == 0             \* None of an Optional[datetime]; the clock starts at 1

Edge(f, t) == [from_node |-> f, to_node |-> t]

Bubble(type, reward, expected, hints) ==
    [type |-> type, coin_reward |-> reward, expected_output |-> expected, hints |-> hints]

\* a -> b: a concept, then a task with an expected output and two hints
LinearSession ==
    [graph_json |-> [start_node |-> "a", nodes |-> <<"a", "b">>,
                     edges |-> <<Edge("a", "b")>>],
     bubbles |-> [n \in {"a", "b"} |->
                    CASE n = "a" -> Bubble("concept", 5, NoneStr, <<>>)
                      [] n = "b" -> Bubble("task", 10, <<"a">>, <<"h1", "h2">>)]]

\* a branches to b (declared first) and to c; both are dead ends
BranchSession ==
    [graph_json |-> [start_node |-> "a", nodes |-> <<"a", "b", "c">>,
                     edges |-> <<Edge("a", "b"), Edge("a", "c")>>],
     bubbles |-> [n \in {"a", "b", "c"} |->
                    CASE n = "a" -> Bubble("demo", 10, NoneStr, <<"h1">>)
                      [] n = "b" -> Bubble("summary", 10, NoneStr, <<>>)
                      [] n = "c" -> Bubble("quiz", 0, <<"a">>, <<"h1">>)]]

\* a <-> b is a cycle (validate_graph only warns); x is a BubbleNode row added
\* with POST /{session_id}/bubbles for a node_id the graph does not have
CycleSession ==
    [graph_json |-> [start_node |-> "a", nodes |-> <<"a", "b">>,
                     edges |-> <<Edge("a", "b"), Edge("b", "a")>>],
     bubbles |-> [n \in {"a", "b", "x"} |->
                    CASE n = "a" -> Bubble("concept", 5, NoneStr, <<>>)
                      [] n = "b" -> Bubble("quiz", 5, <<"a">>, <<>>)
                      [] n = "x" -> Bubble("concept", 5, NoneStr, <<>>)]]

Sessions == {LinearSession, BranchSession, CycleSession}

\* no graph is being validated or traversed
NoGraph == [start_node |-> None, nodes |-> <<>>, edges |-> <<>>]

\* request inputs
NodeIds == {"a", "b", "c", "x", "zz"}
Submission(student_response, code_output) ==
    [student_response |-> student_response, code_output |-> code_output]
LongResponse == <<"b", "b", "b", "b", "b", "b", "b", "b", "b", "b", "b">>
\* student_response and code_output of the advance requests
Submissions == {Submission(<<>>, NoneStr), Submission(<<" ">>, <<"a", " ">>),
                Submission(<<" ", "A", " ">>, NoneStr), Submission(LongResponse, <<"b">>),
                Submission(<<>>, <<"a">>)}
TimeSpents == {<<>>, <<1>>}     \* Optional[int]: <<>> is None
CurrentNodeInputs == {"b"}      \* node_id of PUT current-node, not checked against the graph

-----------------------------------------------------------------------------
(* GraphService *)

RECURSIVE NextNodesFrom(_, _)
NextNodesFrom(edges, current_node) ==
    IF edges = <<>> THEN <<>>
    ELSE IF Head(edges).from_node = current_node
         THEN <<Head(edges).to_node>> \o NextNodesFrom(Tail(edges), current_node)
         ELSE NextNodesFrom(Tail(edges), current_node)

\* variant: the loop of lines 195-197 stops at the first edge it finds
get_next_nodes_first_only(graph, current_node) ==
    LET next_nodes == NextNodesFrom(graph.edges, current_node)
    IN  IF next_nodes = <<>> THEN <<>> ELSE <<Head(next_nodes)>>

get_next_nodes(graph, current_node) == NextNodesFrom(graph.edges, current_node)

-----------------------------------------------------------------------------
(* SessionService._evaluate_response *)

Evaluation(success, feedback, coins) ==
    [success |-> success, feedback |-> feedback, coins_earned |-> coins]

evaluate_response(bubble_node, response, code_output) ==
    CASE bubble_node.type = "concept" ->
           IF Len(Strip(response)) > 0
           THEN Evaluation(TRUE, "Great! You've reviewed the concept.", bubble_node.coin_reward)
           ELSE Evaluation(FALSE, "Please acknowledge that you've read the concept.", 0)
      [] bubble_node.type = "quiz" ->
           IF Truthy(bubble_node.expected_output)
              /\ Lower(Strip(response)) = Lower(bubble_node.expected_output)
           THEN Evaluation(TRUE, "Correct answer!", bubble_node.coin_reward)
           ELSE Evaluation(FALSE, "That's not quite right. Try again!", 0)
      [] bubble_node.type = "task" ->
           IF Truthy(bubble_node.expected_output)
              /\ Truthy(code_output)
           THEN IF Strip(code_output) = Strip(bubble_node.expected_output)
                THEN Evaluation(TRUE, "Perfect! Your code works correctly.",
                                bubble_node.coin_reward)
                ELSE Evaluation(FALSE, "Output doesn't match.", 0)
           ELSE IF Len(Strip(response)) > 10
                THEN Evaluation(TRUE, "Good effort! Your solution has been submitted.",
                                bubble_node.coin_reward)
                ELSE Evaluation(FALSE, "Please provide a more complete solution.", 0)
      [] OTHER -> Evaluation(TRUE, "Response recorded.", bubble_node.coin_reward)

-----------------------------------------------------------------------------
(* StudentState rows and the queries on them *)

\* variant: current_node_id is left at the default of the column
NewStudentStateUnpositioned(student_id, start_node, now) ==
    [student_id |-> student_id, session_id |-> SessionId,
     current_node_id |-> None, completed_nodes |-> <<>>,
     failed_attempts |-> [n \in {} |-> 0], total_coins |-> 0,
     is_completed |-> FALSE, completion_percentage |-> Fraction(0, 1),
     started_at |-> now, last_activity_at |-> now, completed_at |-> NoTime,
     total_time_spent |-> 0]

NewStudentState(student_id, start_node, now) ==
    [student_id |-> student_id, session_id |-> SessionId,
     current_node_id |-> start_node, completed_nodes |-> <<>>,
     failed_attempts |-> [n \in {} |-> 0], total_coins |-> 0,
     is_completed |-> FALSE, completion_percentage |-> Fraction(0, 1),
     started_at |-> now, last_activity_at |-> now, completed_at |-> NoTime,
     total_time_spent |-> 0]

\* rows selected by student_id and session_id
Matching(student_id) ==
    {i \in DOMAIN student_states :
        /\ student_states[i].student_id = student_id
        /\ student_states[i].session_id = SessionId}

\* .first() of that select: a row id, or 0 for None
First(student_id) ==
    IF Matching(student_id) = {} THEN {0} ELSE Matching(student_id)

\* request is the response and code output the call evaluated, if it evaluated any
NoRequest == [student_response |-> NoneStr, code_output |-> NoneStr]

Evaluated(op, student_id, row, pre, node_id, request, result) ==
    [op |-> op, student_id |-> student_id, row |-> row, pre |-> pre,
     node_id |-> node_id, request |-> request, time_spent |-> <<>>, result |-> result]

\* a handled advance call, with the time_spent of its request
Timed(call, time_spent) == [call EXCEPT !.time_spent = time_spent]

Call(op, student_id, row, pre, node_id, result) ==
    Evaluated(op, student_id, row, pre, node_id, NoRequest, result)

Raised(detail) == [kind |-> "error", detail |-> detail]

Returned(state) == [kind |-> "state", state |-> state]

BubbleAdvanceResponse(success, next_node_id, feedback, coins_earned, complete, hints) ==
    [kind |-> "response", success |-> success, next_node_id |-> next_node_id,
     feedback |-> feedback, coins_earned |-> coins_earned,
     is_session_complete |-> complete, hints_available |-> hints]

-----------------------------------------------------------------------------
(* The steps of advance_bubble on the loaded StudentState *)

\* request.time_spent or 0
TimeSpent(time_spent) == IF time_spent = <<>> THEN 0 ELSE time_spent[1]

\* variant: the completed check of lines 107-112 is missing
AlreadyCompletedNever(state) == FALSE

AlreadyCompleted(state) == state.is_completed

\* variant: total_time_spent is assigned, not added to
AccumulateOverwriting(state, now, time_spent) ==
    [state EXCEPT !.last_activity_at = now, !.total_time_spent = time_spent]

Accumulate(state, now, time_spent) ==
    [state EXCEPT !.last_activity_at = now, !.total_time_spent = @ + time_spent]

\* variant: the membership test of line 142 is missing
MarkCompletedUnguarded(state, node_id, coins_earned) ==
    [state EXCEPT !.completed_nodes = Append(@, node_id),
                  !.total_coins = @ + coins_earned]

\* variant: coins are credited outside the membership test of line 142
MarkCompletedRecredit(state, node_id, coins_earned) ==
    IF node_id \notin Range(state.completed_nodes)
    THEN [state EXCEPT !.completed_nodes = Append(@, node_id),
                       !.total_coins = @ + coins_earned]
    ELSE [state EXCEPT !.total_coins = @ + coins_earned]

\* variant: line 144 is missing
MarkCompletedNoCredit(state, node_id, coins_earned) ==
    IF node_id \notin Range(state.completed_nodes)
    THEN [state EXCEPT !.completed_nodes = Append(@, node_id)]
    ELSE state

MarkCompleted(state, node_id, coins_earned) ==
    IF node_id \notin Range(state.completed_nodes)
    THEN [state EXCEPT !.completed_nodes = Append(@, node_id),
                       !.total_coins = @ + coins_earned]
    ELSE state

\* whether _award_coins is called
Awards(state, node_id, coins_earned) ==
    node_id \notin Range(state.completed_nodes) /\ coins_earned > 0

CoinTransaction(student_id, amount) ==
    [student_id |-> student_id, session_id |-> SessionId, amount |-> amount,
     transaction_type |-> "earned"]

\* variant: the last declared edge is followed instead of next_nodes[0]
NextNodeIdLast(graph, node_id) ==
    LET next_nodes == get_next_nodes(graph, node_id)
    IN  IF next_nodes # <<>> THEN next_nodes[Len(next_nodes)] ELSE None

NextNodeId(graph, node_id) ==
    LET next_nodes == get_next_nodes(graph, node_id)
    IN  IF next_nodes # <<>> THEN next_nodes[1] ELSE None

\* variant: lines 159-161 are missing
RepositionNeverCompleting(state, next_node_id, now) ==
    IF next_node_id # None /\ next_node_id # ""
    THEN [state EXCEPT !.current_node_id = next_node_id]
    ELSE state

Reposition(state, next_node_id, now) ==
    IF next_node_id # None /\ next_node_id # ""
    THEN [state EXCEPT !.current_node_id = next_node_id]
    ELSE [state EXCEPT !.is_completed = TRUE, !.completed_at = now]

CompletionPercentage(state, graph) ==
    Fraction(100 * Len(state.completed_nodes), Len(graph.nodes))

\* variant: lines 167-170 are missing
RecomputeNever(state, graph) == state

Recompute(state, graph) ==
    [state EXCEPT !.completion_percentage = CompletionPercentage(state, graph)]

FailedAttempts(state, node_id) ==
    IF node_id \in DOMAIN state.failed_attempts THEN state.failed_attempts[node_id] ELSE 0

\* variant: the dictionary is replaced by one holding the failed node alone
RecordFailureAlone(state, node_id) ==
    [state EXCEPT !.failed_attempts =
        [n \in {node_id} |-> FailedAttempts(state, node_id) + 1]]

RecordFailure(state, node_id) ==
    [state EXCEPT !.failed_attempts =
        [n \in DOMAIN state.failed_attempts \cup {node_id} |->
            IF n = node_id THEN FailedAttempts(state, node_id) + 1
            ELSE state.failed_attempts[n]]]

Hints(bubble_node, attempts) ==
    IF bubble_node.hints # <<>> /\ attempts <= Len(bubble_node.hints)
    THEN <<bubble_node.hints[attempts]>>
    ELSE <<>>

\* variant: the student is moved only when the node was not completed before
SucceedStaying(state, graph, node_id, evaluation, now, time_spent) ==
    LET next_node_id == NextNodeId(graph, node_id)
        marked == MarkCompleted(Accumulate(state, now, time_spent), node_id,
                                evaluation.coins_earned)
        after == IF node_id \in Range(state.completed_nodes)
                 THEN Recompute(marked, graph)
                 ELSE Recompute(Reposition(marked, next_node_id, now), graph)
    IN  [state |-> after,
         response |-> BubbleAdvanceResponse(TRUE, next_node_id, evaluation.feedback,
                                            evaluation.coins_earned, after.is_completed,
                                            <<>>)]

\* the success branch, lines 140-188
Succeed(state, graph, node_id, evaluation, now, time_spent) ==
    LET next_node_id == NextNodeId(graph, node_id)
        marked == MarkCompleted(Accumulate(state, now, time_spent), node_id,
                                evaluation.coins_earned)
        after == Recompute(Reposition(marked, next_node_id, now), graph)
    IN  [state |-> after,
         response |-> BubbleAdvanceResponse(TRUE, next_node_id, evaluation.feedback,
                                            evaluation.coins_earned, after.is_completed,
                                            <<>>)]

\* the failure branch, lines 190-216
Fail(state, bubble_node, node_id, evaluation, now, time_spent) ==
    LET after == RecordFailure(Accumulate(state, now, time_spent), node_id)
    IN  [state |-> after,
         response |-> BubbleAdvanceResponse(FALSE, None, evaluation.feedback, 0, FALSE,
                                            Hints(bubble_node,
                                                  FailedAttempts(after, node_id)))]

-----------------------------------------------------------------------------
(* Handlers, each run from its first line to its return *)

Init ==
    /\ \E sess \in Sessions :
          /\ session = [graph_json |-> sess.graph_json]
          /\ bubble_nodes = sess.bubbles
    /\ student_states = <<>>
    /\ coin_transactions = <<>>
    /\ clock = 0
    /\ last = Call("none", 0, 0, <<>>, None, Raised("none"))
    /\ requests = <<>>
    /\ graph_data = NoGraph
    /\ stack = <<>>
    /\ paths = <<>>

\* SessionService.start_session
StartSession(student_id) ==
    /\ clock < MaxClock
    /\ clock' = clock + 1
    /\ \E i \in First(student_id) :
          LET now == clock + 1 IN
          IF i # 0 /\ ~student_states[i].is_completed
          THEN \* resume
               LET resumed == [student_states[i] EXCEPT !.last_activity_at = now] IN
               /\ student_states' = [student_states EXCEPT ![i] = resumed]
               /\ last' = Call("start_session", student_id, i, <<student_states[i]>>,
                               None, Returned(resumed))
          ELSE \* create
               LET created == NewStudentState(student_id, session.graph_json.start_node, now)
               IN  /\ student_states' = Append(student_states, created)
                   /\ last' = Call("start_session", student_id, Len(student_states) + 1,
                                   IF i = 0 THEN <<>> ELSE <<student_states[i]>>,
                                   None, Returned(created))
    /\ UNCHANGED <<graph_data, stack, paths, session, bubble_nodes, coin_transactions, requests>>

\* SessionService.advance_bubble
AdvanceBubble(student_id, node_id, student_response, code_output, time_spent) ==
    /\ \E i \in First(student_id) :
          LET now == clock + 1 IN
          IF i = 0
          THEN /\ last' = Timed(Call("advance", student_id, 0, <<>>, node_id,
                                     Raised("Student state not found")), time_spent)
               /\ UNCHANGED <<student_states, coin_transactions, clock>>
          ELSE
          LET state == student_states[i] IN
          IF AlreadyCompleted(state)
          THEN /\ last' = Timed(Call("advance", student_id, i, <<state>>, node_id,
                                     BubbleAdvanceResponse(FALSE, None,
                                                           "Session already completed",
                                                           0, TRUE, <<>>)), time_spent)
               /\ UNCHANGED <<student_states, coin_transactions, clock>>
          ELSE IF node_id \notin DOMAIN bubble_nodes
          THEN /\ last' = Timed(Call("advance", student_id, i, <<state>>, node_id,
                                     Raised("Bubble node not found")), time_spent)
               /\ UNCHANGED <<student_states, coin_transactions, clock>>
          ELSE
          LET bubble_node == bubble_nodes[node_id]
              evaluation == evaluate_response(bubble_node, student_response, code_output)
              t == TimeSpent(time_spent)
              done == IF evaluation.success
                      THEN Succeed(state, session.graph_json, node_id, evaluation, now, t)
                      ELSE Fail(state, bubble_node, node_id, evaluation, now, t)
          IN  /\ clock < MaxClock
              /\ clock' = clock + 1
              /\ state.total_time_spent + t <= MaxTotalTime
              /\ evaluation.success \/ FailedAttempts(state, node_id) < MaxFailedAttempts
              /\ student_states' = [student_states EXCEPT ![i] = done.state]
              /\ coin_transactions' =
                   IF evaluation.success /\ Awards(state, node_id, evaluation.coins_earned)
                   THEN Append(coin_transactions,
                               CoinTransaction(student_id, evaluation.coins_earned))
                   ELSE coin_transactions
              /\ last' = Timed(Evaluated("advance", student_id, i, <<state>>, node_id,
                                          Submission(student_response, code_output),
                                          done.response), time_spent)
    /\ UNCHANGED <<graph_data, stack, paths, session, bubble_nodes, requests>>

\* SessionService.get_student_state
GetStudentState(student_id) ==
    /\ \E i \in First(student_id) :
          last' = IF i = 0
                  THEN Call("get_state", student_id, 0, <<>>, None, Raised("Session not started"))
                  ELSE Call("get_state", student_id, i, <<student_states[i]>>, None,
                            Returned(student_states[i]))
    /\ UNCHANGED <<graph_data, stack, paths, session, bubble_nodes, student_states, coin_transactions, clock, requests>>

\* PUT /sessions/{session_id}/current-node
UpdateCurrentNode(student_id, node_id) ==
    /\ \E i \in First(student_id) :
          IF i = 0
          THEN /\ last' = Call("update_current_node", student_id, 0, <<>>, node_id,
                               Raised("Student state not found"))
               /\ UNCHANGED <<student_states, clock>>
          ELSE LET moved == [student_states[i] EXCEPT !.current_node_id = node_id,
                                                      !.last_activity_at = clock + 1]
               IN  /\ clock < MaxClock
                   /\ clock' = clock + 1
                   /\ student_states' = [student_states EXCEPT ![i] = moved]
                   /\ last' = Call("update_current_node", student_id, i,
                                   <<student_states[i]>>, node_id, Returned(moved))
    /\ UNCHANGED <<graph_data, stack, paths, session, bubble_nodes, coin_transactions, requests>>

Next ==
    \/ \E s \in Students : StartSession(s)
    \/ \E s \in Students, n \in NodeIds, sub \in Submissions, t \in TimeSpents :
          AdvanceBubble(s, n, sub.student_response, sub.code_output, t)
    \/ \E s \in Students : GetStudentState(s)
    \/ \E s \in Students, n \in CurrentNodeInputs : UpdateCurrentNode(s, n)

Spec == Init /\ [][Next]_vars

-----------------------------------------------------------------------------
(* The same handlers run by several workers at once.  Each worker has its  *)
(* own database session: it loads the row (select ... first()), changes    *)
(* the loaded object and commits.  No row lock, version column or          *)
(* serializable transaction is taken anywhere in the code, so the steps of *)
(* two handlers interleave freely.  A commit updates the columns whose     *)
(* value differs from the value loaded; after a commit the object is       *)
(* expired and its attributes are read again from the table.               *)

Idle == [pc |-> "idle"]

Workers == 1..MaxRequests

FieldNames == {"student_id", "session_id", "current_node_id", "completed_nodes",
               "failed_attempts", "total_coins", "is_completed", "completion_percentage",
               "started_at", "last_activity_at", "completed_at", "total_time_spent"}

\* UPDATE of the columns changed since the load
WriteChanged(row, loaded, current) ==
    [f \in FieldNames |-> IF current[f] # loaded[f] THEN current[f] ELSE row[f]]

\* a handled call, as in `last`; ledger is the number of coin transactions there
\* were when the handler loaded its row
Finished(op, student_id, row, pre, node_id, result, ledger) ==
    [pc |-> "done", op |-> op, student_id |-> student_id, row |-> row, pre |-> pre,
     node_id |-> node_id, result |-> result, ledger |-> ledger]

Quiescent == \A w \in DOMAIN requests : requests[w].pc \in {"idle", "done"}

ConcInit ==
    /\ \E sess \in Sessions :
          /\ session = [graph_json |-> sess.graph_json]
          /\ bubble_nodes = sess.bubbles
    /\ student_states = <<>>
    /\ coin_transactions = <<>>
    /\ clock = 0
    /\ last = Call("none", 0, 0, <<>>, None, Raised("none"))
    /\ requests = [w \in Workers |-> Idle]
    /\ graph_data = NoGraph
    /\ stack = <<>>
    /\ paths = <<>>

\* start_session up to the select of the existing state (lines 32-42)
BeginStart(w, student_id) ==
    /\ requests[w].pc = "idle"
    /\ clock < MaxConcClock
    /\ clock' = clock + 1
    /\ \E i \in First(student_id) :
          requests' = [requests EXCEPT ![w] =
              [pc |-> "starting", op |-> "start_session", student_id |-> student_id,
               row |-> i, now |-> clock + 1,
               resume |-> (i # 0 /\ ~student_states[i].is_completed)]]
    /\ UNCHANGED <<graph_data, stack, paths, session, bubble_nodes, student_states, coin_transactions, last>>

\* start_session from the decision to its commit (lines 44-81)
FinishStart(w) ==
    LET req == requests[w] IN
    /\ req.pc = "starting"
    /\ IF req.resume
       THEN LET resumed == [student_states[req.row] EXCEPT !.last_activity_at = req.now]
            IN  /\ student_states' = [student_states EXCEPT ![req.row] = resumed]
                /\ requests' = [requests EXCEPT ![w] =
                       Finished("start_session", req.student_id, req.row,
                                <<student_states[req.row]>>, None, Returned(resumed),
                                Len(coin_transactions))]
       ELSE LET created == NewStudentState(req.student_id,
                                           session.graph_json.start_node, req.now)
            IN  /\ student_states' = Append(student_states, created)
                /\ requests' = [requests EXCEPT ![w] =
                       Finished("start_session", req.student_id, Len(student_states) + 1,
                                <<>>, None, Returned(created), Len(coin_transactions))]
    /\ UNCHANGED <<graph_data, stack, paths, session, bubble_nodes, coin_transactions, clock, last>>

\* advance_bubble up to the changes made on the loaded object (lines 97-149, 190-194)
BeginAdvance(w, student_id, node_id, student_response, code_output, time_spent) ==
    /\ requests[w].pc = "idle"
    /\ \E i \in First(student_id) :
          IF i = 0
          THEN /\ requests' = [requests EXCEPT ![w] =
                      Finished("advance", student_id, 0, <<>>, node_id,
                               Raised("Student state not found"),
                               Len(coin_transactions))]
               /\ UNCHANGED clock
          ELSE
          LET state == student_states[i] IN
          IF AlreadyCompleted(state)
          THEN /\ requests' = [requests EXCEPT ![w] =
                      Finished("advance", student_id, i, <<state>>, node_id,
                               BubbleAdvanceResponse(FALSE, None, "Session already completed",
                                                     0, TRUE, <<>>),
                               Len(coin_transactions))]
               /\ UNCHANGED clock
          ELSE IF node_id \notin DOMAIN bubble_nodes
          THEN /\ requests' = [requests EXCEPT ![w] =
                      Finished("advance", student_id, i, <<state>>, node_id,
                               Raised("Bubble node not found"), Len(coin_transactions))]
               /\ UNCHANGED clock
          ELSE
          LET evaluation == evaluate_response(bubble_nodes[node_id], student_response,
                                              code_output)
              t == TimeSpent(time_spent)
              touched == Accumulate(state, clock + 1, t)
          IN  /\ clock < MaxConcClock
              /\ clock' = clock + 1
              /\ state.total_time_spent + t <= MaxTotalTime
              /\ evaluation.success \/ FailedAttempts(state, node_id) < MaxFailedAttempts
              /\ requests' = [requests EXCEPT ![w] =
                     [pc |-> "loaded", op |-> "advance", student_id |-> student_id,
                      row |-> i, node_id |-> node_id, now |-> clock + 1,
                      evaluation |-> evaluation, pre |-> state, loaded |-> state,
                      ledger |-> Len(coin_transactions),
                      awards |-> (evaluation.success
                                  /\ Awards(state, node_id, evaluation.coins_earned)),
                      state |-> IF evaluation.success
                                THEN MarkCompleted(touched, node_id, evaluation.coins_earned)
                                ELSE RecordFailure(touched, node_id)]]
    /\ UNCHANGED <<graph_data, stack, paths, session, bubble_nodes, student_states, coin_transactions, last>>

\* _award_coins: its commit also flushes the changes made so far (lines 147-149, 340-352)
AwardCoins(w) ==
    LET req == requests[w] IN
    /\ req.pc = "loaded"
    /\ req.awards
    /\ student_states' = [student_states EXCEPT ![req.row] =
                              WriteChanged(@, req.loaded, req.state)]
    /\ coin_transactions' = Append(coin_transactions,
                                   CoinTransaction(req.student_id,
                                                   req.evaluation.coins_earned))
    /\ requests' = [requests EXCEPT ![w].pc = "awarded"]
    /\ UNCHANGED <<graph_data, stack, paths, session, bubble_nodes, clock, last>>

\* the rest of the success branch (lines 151-188)
FinishSuccess(w) ==
    LET req == requests[w]
        next_node_id == NextNodeId(session.graph_json, req.node_id)
        row == student_states[req.row]
        \* after _award_coins committed, the object is read again from the table
        current == IF req.pc = "awarded" THEN row ELSE req.state
        loaded == IF req.pc = "awarded" THEN row ELSE req.loaded
        moved == Reposition(current, next_node_id, req.now)
        \* completing: _log_event commits before completed_nodes is read at line 169
        flushed == IF moved.is_completed THEN WriteChanged(row, loaded, moved) ELSE row
        after == IF moved.is_completed
                 THEN Recompute(flushed, session.graph_json)
                 ELSE WriteChanged(row, loaded, Recompute(moved, session.graph_json))
    IN
    /\ req.pc \in {"loaded", "awarded"}
    /\ req.evaluation.success
    /\ req.pc = "loaded" => ~req.awards
    /\ student_states' = [student_states EXCEPT ![req.row] = after]
    /\ requests' = [requests EXCEPT ![w] =
           Finished("advance", req.student_id, req.row, <<req.pre>>, req.node_id,
                    BubbleAdvanceResponse(TRUE, next_node_id, req.evaluation.feedback,
                                          req.evaluation.coins_earned, after.is_completed,
                                          <<>>),
                    req.ledger)]
    /\ UNCHANGED <<graph_data, stack, paths, session, bubble_nodes, coin_transactions, clock, last>>

\* the rest of the failure branch (lines 196-216)
FinishFailure(w) ==
    LET req == requests[w]
        after == WriteChanged(student_states[req.row], req.loaded, req.state)
    IN
    /\ req.pc = "loaded"
    /\ ~req.evaluation.success
    /\ student_states' = [student_states EXCEPT ![req.row] = after]
    /\ requests' = [requests EXCEPT ![w] =
           Finished("advance", req.student_id, req.row, <<req.pre>>, req.node_id,
                    BubbleAdvanceResponse(FALSE, None, req.evaluation.feedback, 0, FALSE,
                                          Hints(bubble_nodes[req.node_id],
                                                FailedAttempts(after, req.node_id))),
                    req.ledger)]
    /\ UNCHANGED <<graph_data, stack, paths, session, bubble_nodes, coin_transactions, clock, last>>

\* the responses are delivered and the workers take the next requests
Release ==
    /\ Quiescent
    /\ \E w \in Workers : requests[w].pc = "done"
    /\ requests' = [w \in Workers |-> Idle]
    /\ UNCHANGED <<graph_data, stack, paths, session, bubble_nodes, student_states, coin_transactions, clock, last>>

ConcNext ==
    \/ \E w \in Workers, s \in Students : BeginStart(w, s)
    \/ \E w \in Workers : FinishStart(w)
    \/ \E w \in Workers, s \in Students, n \in NodeIds, sub \in Submissions,
          t \in TimeSpents :
          BeginAdvance(w, s, n, sub.student_response, sub.code_output, t)
    \/ \E w \in Workers : AwardCoins(w)
    \/ \E w \in Workers : FinishSuccess(w)
    \/ \E w \in Workers : FinishFailure(w)
    \/ Release

SpecConc == ConcInit /\ [][ConcNext]_vars

-----------------------------------------------------------------------------
(* Graphs given to GraphService.  A node of a BubbleGraphSchema is a record *)
(* of its id, type and title; the other fields of BubbleNodeSchema are not  *)
(* read by the service.                                                     *)

MaxNodes == 3           \* nodes of a graph
MaxEdges == 3           \* edges of a graph

GraphNode(id, type, title) == [id |-> id, type |-> type, title |-> title]

NodeNames == <<"a", "b", "c", "d">>

BubbleTypes == <<"concept", "task", "quiz", "demo">>

\* n nodes of mixed types, each with a title
TitledNodes(n) ==
    [i \in 1..n |-> GraphNode(NodeNames[i], BubbleTypes[i], <<"t">>)]

\* n demo nodes whose title is a blank
BlankNodes(n) == [i \in 1..n |-> GraphNode(NodeNames[i], "demo", <<" ">>)]

\* graphs of n nodes with no edge yet.  start_node is any string: the first
\* node, or a name the graph does not have (the edges range over all pairs of
\* nodes, so starting at the first node leaves out no shape of graph)
EdgelessGraphs(n) ==
    {[start_node |-> start, nodes |-> nodes, edges |-> <<>>] :
        start \in {NodeNames[1], "missing"},
        nodes \in {TitledNodes(n), BlankNodes(n)}}

\* request bodies the schema refuses
MalformedGraphs ==
    {[start_node |-> "a", nodes |-> <<>>, edges |-> <<>>],
     [start_node |-> "a", nodes |-> TitledNodes(1), edges |-> <<Edge("a", "zz")>>],
     [start_node |-> "a", nodes |-> TitledNodes(1), edges |-> <<Edge("zz", "a")>>],
     [start_node |-> "a", nodes |-> TitledNodes(1) \o TitledNodes(1), edges |-> <<>>]}

Graphs == UNION {EdgelessGraphs(n) : n \in 1..MaxNodes} \cup MalformedGraphs

\* [node.id for node in graph.nodes]
IdsOf(nodes) == [i \in DOMAIN nodes |-> nodes[i].id]

\* the validators of BubbleGraphSchema: start_node is validated before nodes
\* is, so its validator finds no 'nodes' in values and checks nothing
BubbleGraphSchemaAccepts(g) ==
    LET node_ids == IdsOf(g.nodes) IN
    /\ g.start_node # ""
    /\ Len(g.nodes) >= 1
    /\ \A i \in DOMAIN g.nodes : g.nodes[i].id # "" /\ g.nodes[i].title # <<>>
    /\ Len(node_ids) = Cardinality(Range(node_ids))
    /\ \A k \in DOMAIN g.edges :
          /\ g.edges[k].from_node \in Range(node_ids)
          /\ g.edges[k].to_node \in Range(node_ids)

-----------------------------------------------------------------------------
(* GraphService.validate_graph *)

\* an error or warning string: its fixed text and the names formatted into it
Message(text, about) == [text |-> text, about |-> about]

\* variant: the from_node == to_node test of lines 97-98 is missing
RECURSIVE validate_edges_loops_allowed(_, _)
validate_edges_loops_allowed(edges, node_ids) ==
    IF edges = <<>> THEN <<>>
    ELSE LET edge == Head(edges) IN
         (IF edge.from_node \notin node_ids
          THEN <<Message("Edge references unknown from_node", {edge.from_node})>>
          ELSE <<>>)
         \o (IF edge.to_node \notin node_ids
             THEN <<Message("Edge references unknown to_node", {edge.to_node})>>
             ELSE <<>>)
         \o validate_edges_loops_allowed(Tail(edges), node_ids)

RECURSIVE validate_edges(_, _)
validate_edges(edges, node_ids) ==
    IF edges = <<>> THEN <<>>
    ELSE LET edge == Head(edges) IN
         (IF edge.from_node \notin node_ids
          THEN <<Message("Edge references unknown from_node", {edge.from_node})>>
          ELSE <<>>)
         \o (IF edge.to_node \notin node_ids
             THEN <<Message("Edge references unknown to_node", {edge.to_node})>>
             ELSE <<>>)
         \o (IF edge.from_node = edge.to_node
             THEN <<Message("Self-loop detected", {edge.from_node})>>
             ELSE <<>>)
         \o validate_edges(Tail(edges), node_ids)

\* adj_list[node]: the targets of the edges from node, in the order declared
adj_list(edges, node) == NextNodesFrom(edges, node)

\* the sets of _has_cycles, and whether a cycle was found
Search(found, visited, rec_stack) ==
    [found |-> found, visited |-> visited, rec_stack |-> rec_stack]

RECURSIVE dfs(_, _, _)
RECURSIVE dfs_neighbors(_, _, _)

\* variant: rec_stack.remove(node) of line 126 is missing
dfs_no_unwind(edges, node, search) ==
    IF node \in search.rec_stack THEN [search EXCEPT !.found = TRUE]
    ELSE IF node \in search.visited THEN search
    ELSE dfs_neighbors(edges, adj_list(edges, node),
                       Search(FALSE, search.visited \cup {node},
                              search.rec_stack \cup {node}))

\* dfs(node) of _has_cycles, lines 113-127
dfs(edges, node, search) ==
    IF node \in search.rec_stack THEN [search EXCEPT !.found = TRUE]
    ELSE IF node \in search.visited THEN search
    ELSE LET after == dfs_neighbors(edges, adj_list(edges, node),
                                    Search(FALSE, search.visited \cup {node},
                                           search.rec_stack \cup {node}))
         IN  IF after.found THEN after
             ELSE [after EXCEPT !.rec_stack = @ \ {node}]

\* the loop of lines 122-124
dfs_neighbors(edges, neighbors, search) ==
    IF neighbors = <<>> THEN search
    ELSE LET after == dfs(edges, Head(neighbors), search) IN
         IF after.found THEN after
         ELSE dfs_neighbors(edges, Tail(neighbors), after)

\* the loop of lines 130-133
RECURSIVE CheckEachNode(_, _, _)
CheckEachNode(edges, nodes, search) ==
    IF nodes = <<>> THEN FALSE
    ELSE IF Head(nodes) \in search.visited
         THEN CheckEachNode(edges, Tail(nodes), search)
         ELSE LET after == dfs(edges, Head(nodes), search) IN
              IF after.found THEN TRUE
              ELSE CheckEachNode(edges, Tail(nodes), after)

has_cycles(g) == CheckEachNode(g.edges, IdsOf(g.nodes), Search(FALSE, {}, {}))

\* the queue and the visited set of _find_unreachable_nodes
Frontier(queue, visited) == [queue |-> queue, visited |-> visited]

\* the loop of lines 151-154
RECURSIVE Enqueue(_, _)
Enqueue(neighbors, frontier) ==
    IF neighbors = <<>> THEN frontier
    ELSE IF Head(neighbors) \in frontier.visited
         THEN Enqueue(Tail(neighbors), frontier)
         ELSE Enqueue(Tail(neighbors),
                      Frontier(Append(frontier.queue, Head(neighbors)),
                               frontier.visited \cup {Head(neighbors)}))

\* variant: the neighbours found are marked visited but never put on the queue
bfs_one_level(edges, frontier) ==
    IF frontier.queue = <<>> THEN frontier.visited
    ELSE Enqueue(adj_list(edges, Head(frontier.queue)),
                 Frontier(Tail(frontier.queue), frontier.visited)).visited

\* the loop of lines 149-154; the visited set it ends with
RECURSIVE bfs(_, _)
bfs(edges, frontier) ==
    IF frontier.queue = <<>> THEN frontier.visited
    ELSE bfs(edges, Enqueue(adj_list(edges, Head(frontier.queue)),
                            Frontier(Tail(frontier.queue), frontier.visited)))

\* list(all_nodes - visited): the order of a list made from a set is not fixed,
\* the result is kept as the set
find_unreachable_nodes(g) ==
    Range(IdsOf(g.nodes)) \ bfs(g.edges, Frontier(<<g.start_node>>, {g.start_node}))

find_dead_ends(g) ==
    Range(IdsOf(g.nodes)) \ {g.edges[k].from_node : k \in DOMAIN g.edges}

\* the warnings on titles of lines 176-181
RECURSIVE EmptyTitles(_)
EmptyTitles(nodes) ==
    IF nodes = <<>> THEN <<>>
    ELSE (IF Head(nodes).title = <<>> \/ Len(Strip(Head(nodes).title)) = 0
          THEN <<Message("Node has empty title", {Head(nodes).id})>>
          ELSE <<>>)
         \o EmptyTitles(Tail(nodes))

validate_node_content(nodes) ==
    LET types == {nodes[i].type : i \in DOMAIN nodes} IN
    EmptyTitles(nodes)
    \o (IF "concept" \notin types
        THEN <<Message("No concept bubbles found", {})>> ELSE <<>>)
    \o (IF "task" \notin types /\ "quiz" \notin types
        THEN <<Message("No interactive bubbles found", {})>> ELSE <<>>)

GraphValidationResponse(is_valid, errors, warnings, node_count, edge_count, cycles, unreachable) ==
    [kind |-> "validation", is_valid |-> is_valid, errors |-> errors,
     warnings |-> warnings, node_count |-> node_count, edge_count |-> edge_count,
     has_cycles |-> cycles, unreachable_nodes |-> unreachable]

validate_graph(g) ==
    IF Len(g.nodes) = 0
    THEN GraphValidationResponse(FALSE,
                                 <<Message("Graph must have at least one node", {})>>,
                                 <<>>, 0, 0, FALSE, {})
    ELSE
    LET node_ids == Range(IdsOf(g.nodes))
        errors == (IF g.start_node \notin node_ids
                   THEN <<Message("Start node not found in graph nodes", {g.start_node})>>
                   ELSE <<>>)
                  \o validate_edges(g.edges, node_ids)
        cycles == has_cycles(g)
        unreachable == find_unreachable_nodes(g)
        dead_ends == find_dead_ends(g)
        warnings == (IF cycles THEN <<Message("Graph contains cycles", {})>> ELSE <<>>)
                    \o (IF unreachable # {}
                        THEN <<Message("Unreachable nodes found", unreachable)>>
                        ELSE <<>>)
                    \o (IF Cardinality(dead_ends) > 1
                        THEN <<Message("Multiple dead ends found", dead_ends)>>
                        ELSE <<>>)
                    \o validate_node_content(g.nodes)
    IN  GraphValidationResponse(errors = <<>>, errors, warnings, Len(g.nodes),
                                Len(g.edges), cycles, unreachable)

\* the request body is drawn edge by edge: one more edge between nodes of the
\* graph, as long as the graph has been given to no call
AddEdge(from_node, to_node) ==
    /\ last.op = "none"
    /\ stack = <<>>
    /\ Len(graph_data.edges) < MaxEdges
    /\ BubbleGraphSchemaAccepts(graph_data)
    /\ {from_node, to_node} \subseteq Range(IdsOf(graph_data.nodes))
    /\ graph_data' = [graph_data EXCEPT !.edges = Append(@, Edge(from_node, to_node))]
    /\ UNCHANGED <<stack, paths, session, bubble_nodes, student_states,
                   coin_transactions, clock, last, requests>>

\* a graph is posted to be validated
GraphInit ==
    /\ graph_data \in Graphs
    /\ session = [graph_json |-> NoGraph]
    /\ bubble_nodes = [n \in {} |-> Bubble("concept", 0, NoneStr, <<>>)]
    /\ student_states = <<>>
    /\ coin_transactions = <<>>
    /\ clock = 0
    /\ last = Call("none", 0, 0, <<>>, None, Raised("none"))
    /\ requests = <<>>
    /\ stack = <<>>
    /\ paths = <<>>

\* POST /sessions/validate-graph
ValidateGraph ==
    /\ last' = IF BubbleGraphSchemaAccepts(graph_data)
               THEN Call("validate_graph", 0, 0, <<>>, None, validate_graph(graph_data))
               ELSE Call("validate_graph", 0, 0, <<>>, None, Raised("Unprocessable Entity"))
    /\ UNCHANGED <<graph_data, stack, paths, session, bubble_nodes, student_states,
                   coin_transactions, clock, requests>>

ValidateNext ==
    \/ \E from_node \in Range(NodeNames), to_node \in Range(NodeNames) :
          AddEdge(from_node, to_node)
    \/ ValidateGraph

SpecValidate == GraphInit /\ [][ValidateNext]_vars

-----------------------------------------------------------------------------
(* GraphService.get_valid_paths, one step of the interpreter at a time.     *)
(* dfs_paths is recursive: each call in progress is a frame of the stack,   *)
(* the last frame is the call being run.  A call made when the stack is     *)
(* full raises RecursionError, as the interpreter does at its recursion     *)
(* limit.                                                                   *)

MaxRecursion == 8       \* frames the interpreter allows

\* graphs the schema accepts
PathGraphs ==
    {g \in Graphs : BubbleGraphSchemaAccepts(g) /\ g.nodes = TitledNodes(Len(g.nodes))}

Frame(pc, current, path, visited, pending) ==
    [pc |-> pc, current |-> current, path |-> path, visited |-> visited,
     pending |-> pending]

Pop(frames) == SubSeq(frames, 1, Len(frames) - 1)

\* variant: the test of lines 206-207 is missing
RevisitsNever(current, visited) == FALSE

\* current in visited
Revisits(current, visited) == current \in visited

PathsInit ==
    /\ graph_data \in PathGraphs
    /\ session = [graph_json |-> NoGraph]
    /\ bubble_nodes = [n \in {} |-> Bubble("concept", 0, NoneStr, <<>>)]
    /\ student_states = <<>>
    /\ coin_transactions = <<>>
    /\ clock = 0
    /\ last = Call("none", 0, 0, <<>>, None, Raised("none"))
    /\ requests = <<>>
    /\ stack = <<>>
    /\ paths = <<>>

\* get_valid_paths is called: paths = [] and dfs_paths(graph.start_node, [], set())
GetValidPaths ==
    /\ last.op = "none"
    /\ stack = <<>>
    /\ paths' = <<>>
    /\ stack' = <<Frame("return", None, <<>>, {}, <<>>),
                  Frame("enter", graph_data.start_node, <<>>, {}, <<>>)>>
    /\ UNCHANGED <<graph_data, session, bubble_nodes, student_states, coin_transactions,
                   clock, last, requests>>

\* dfs_paths from its first line to the start of its loop (lines 204-219)
DfsPathsEnter ==
    /\ stack # <<>>
    /\ LET top == stack[Len(stack)]
           new_path == Append(top.path, top.current)
           new_visited == top.visited \cup {top.current}
           next_nodes == get_next_nodes(graph_data, top.current)
       IN  /\ top.pc = "enter"
           /\ IF Revisits(top.current, top.visited)
              THEN stack' = Pop(stack) /\ paths' = paths
              ELSE IF next_nodes = <<>>
              THEN stack' = Pop(stack) /\ paths' = Append(paths, new_path)
              ELSE /\ stack' = Append(Pop(stack),
                                      Frame("loop", top.current, new_path, new_visited,
                                            next_nodes))
                   /\ paths' = paths
    /\ UNCHANGED <<graph_data, session, bubble_nodes, student_states, coin_transactions,
                   clock, last, requests>>

\* one turn of the loop of lines 220-221, or the return after it
DfsPathsLoop ==
    /\ stack # <<>>
    /\ LET top == stack[Len(stack)] IN
       /\ top.pc = "loop"
       /\ IF top.pending = <<>>
          THEN stack' = Pop(stack) /\ last' = last
          ELSE IF Len(stack) >= MaxRecursion
          THEN /\ stack' = <<>>
               /\ last' = Call("get_valid_paths", 0, 0, <<>>, None,
                               Raised("RecursionError"))
          ELSE /\ stack' = Append(Append(Pop(stack),
                                         [top EXCEPT !.pending = Tail(top.pending)]),
                                  Frame("enter", Head(top.pending), top.path,
                                        top.visited, <<>>))
               /\ last' = last
    /\ UNCHANGED <<graph_data, paths, session, bubble_nodes, student_states,
                   coin_transactions, clock, requests>>

\* return paths (line 224)
ReturnPaths ==
    /\ stack # <<>>
    /\ stack[Len(stack)].pc = "return"
    /\ stack' = <<>>
    /\ last' = Call("get_valid_paths", 0, 0, <<>>, None,
                    [kind |-> "paths", paths |-> paths])
    /\ UNCHANGED <<graph_data, paths, session, bubble_nodes, student_states,
                   coin_transactions, clock, requests>>

\* the call and the steps of the interpreter
RunPaths ==
    \/ GetValidPaths
    \/ DfsPathsEnter
    \/ DfsPathsLoop
    \/ ReturnPaths

PathsNext ==
    \/ \E from_node \in Range(NodeNames), to_node \in Range(NodeNames) :
          AddEdge(from_node, to_node)
    \/ RunPaths

\* the call is made, and the interpreter keeps running it until it returns or
\* raises
SpecPaths == PathsInit /\ [][PathsNext]_vars /\ WF_vars(RunPaths)

-----------------------------------------------------------------------------
(* SessionService.get_session_analytics, over the StudentState rows of the   *)
(* session.  The rows are read with no ORDER BY and the keys of each         *)
(* failed_attempts in the order they were stored: bubbles of equal           *)
(* avg_attempts come out of the stable sort in the order they were first     *)
(* met, which is any order here.  avg_attempts is kept in hundredths.  The   *)
(* roll-ups over the completed rows (average time, average coins) and the    *)
(* per-student list are computed from other columns and are left out.        *)

TopChallenging == 5     \* challenging_bubbles[:5]

MaxAttemptsSeen == 3    \* failed attempts of one row on one node, in the roll-up

AnalyticsStudents == {1, 2}

\* node ids the advance requests name.  The roll-up reads no more of a node
\* than its id, so the first student's attempts on the nodes after the second
\* are drawn in non-increasing order along this sequence
ChallengeNodes == <<"a", "b", "c", "d", "e", "f">>

\* node ids the advance requests of the other students name
SharedChallengeNodes == {"a", "b"}

\* sum(attempts_list) for one node: the attempts of the first i rows
RECURSIVE SumAttempts(_, _, _)
SumAttempts(states, node_id, i) ==
    IF i = 0 THEN 0
    ELSE FailedAttempts(states[i], node_id) + SumAttempts(states, node_id, i - 1)

\* all_failures (lines 261-267): for each node id that is a key of some
\* failed_attempts, the attempts of the rows that have the key, as their sum
\* and their number
all_failures(states) ==
    [node_id \in UNION {DOMAIN states[i].failed_attempts : i \in DOMAIN states} |->
        [sum |-> SumAttempts(states, node_id, Len(states)),
         len |-> Cardinality({i \in DOMAIN states :
                                 node_id \in DOMAIN states[i].failed_attempts})]]

\* round(num / den, 2) in hundredths, exact halves to the even neighbour
Round2(num, den) ==
    LET q == (100 * num) \div den
        r == (100 * num) % den
    IN  IF 2 * r < den THEN q
        ELSE IF 2 * r > den THEN q + 1
        ELSE IF q % 2 = 0 THEN q ELSE q + 1

\* variant: the threshold is reached, not passed
IsChallengingAtLeast(sum, len) == 2 * sum >= 3 * len

\* avg_attempts > 1.5
IsChallenging(sum, len) == 2 * sum > 3 * len

ChallengingBubble(node_id, avg_attempts, students_struggled) ==
    [node_id |-> node_id, avg_attempts |-> avg_attempts,
     students_struggled |-> students_struggled]

\* challenging_bubbles before the sort (lines 269-277), without its order
challenging_bubbles(states) ==
    LET failures == all_failures(states) IN
    {ChallengingBubble(n, Round2(failures[n].sum, failures[n].len), failures[n].len) :
        n \in {n \in DOMAIN failures : IsChallenging(failures[n].sum, failures[n].len)}}

\* the orders sort(key=avg_attempts, reverse=True) can leave the bubbles in
RECURSIVE SortedByAttempts(_)
SortedByAttempts(bubbles) ==
    IF bubbles = {} THEN {<<>>}
    ELSE UNION {{<<b>> \o rest : rest \in SortedByAttempts(bubbles \ {b})} :
                   b \in {b \in bubbles :
                             \A c \in bubbles : c.avg_attempts <= b.avg_attempts}}

\* seq[:n]
Take(seq, n) == SubSeq(seq, 1, IF Len(seq) < n THEN Len(seq) ELSE n)

Analytics(total_students, completed_students, completion_rate, challenging) ==
    [kind |-> "analytics", total_students |-> total_students,
     completed_students |-> completed_students, completion_rate |-> completion_rate,
     challenging_bubbles |-> challenging]

\* the dictionaries get_session_analytics can return for the rows
get_session_analytics(states) ==
    IF states = <<>> THEN {Raised("No student data found")}
    ELSE LET completed == Cardinality({i \in DOMAIN states : states[i].is_completed})
         IN  {Analytics(Len(states), completed, Round2(100 * completed, Len(states)),
                        Take(sorted, TopChallenging)) :
                 sorted \in SortedByAttempts(challenging_bubbles(states))}

\* the rows of the session before any advance: none, or one for each student
\* who started
AnalyticsInit ==
    /\ student_states \in
          {<<>>, <<NewStudentState(1, "a", 1)>>,
           <<NewStudentState(1, "a", 1), NewStudentState(2, "a", 1)>>}
    /\ session = [graph_json |-> NoGraph]
    /\ bubble_nodes = [n \in {} |-> Bubble("concept", 0, NoneStr, <<>>)]
    /\ coin_transactions = <<>>
    /\ clock = 1
    /\ last = Call("none", 0, 0, <<>>, None, Raised("none"))
    /\ requests = <<>>
    /\ graph_data = NoGraph
    /\ stack = <<>>
    /\ paths = <<>>

\* the snapshot is drawn one failed advance at a time: what the failure
\* branch of advance_bubble leaves in failed_attempts (line 194)
FailedAdvance(i, k) ==
    LET node_id == ChallengeNodes[k] IN
    /\ last.op = "none"
    /\ i \in DOMAIN student_states
    /\ student_states[i].student_id = 1 \/ node_id \in SharedChallengeNodes
    /\ (student_states[i].student_id = 1 /\ k > 3)
          => FailedAttempts(student_states[i], node_id)
                < FailedAttempts(student_states[i], ChallengeNodes[k - 1])
    /\ FailedAttempts(student_states[i], node_id) < MaxAttemptsSeen
    /\ student_states' = [student_states EXCEPT ![i] = RecordFailure(@, node_id)]
    /\ UNCHANGED <<graph_data, stack, paths, session, bubble_nodes, coin_transactions,
                   clock, last, requests>>

\* GET /analytics/sessions/{session_id}.  One call is followed in a behaviour:
\* it changes no row, a later call draws from the same dictionaries
GetSessionAnalytics ==
    /\ last.op = "none"
    /\ \E result \in get_session_analytics(student_states) :
          last' = Call("get_session_analytics", 0, 0, <<>>, None, result)
    /\ UNCHANGED <<graph_data, stack, paths, session, bubble_nodes, student_states,
                   coin_transactions, clock, requests>>

AnalyticsNext ==
    \/ \E i \in AnalyticsStudents, k \in DOMAIN ChallengeNodes : FailedAdvance(i, k)
    \/ GetSessionAnalytics

SpecAnalytics == AnalyticsInit /\ [][AnalyticsNext]_vars

-----------------------------------------------------------------------------
(* A session is created from a posted graph, its bubbles are given their    *)
(* content, and a student works through it: start_session, then advance on  *)
(* the node the state is at, with a response that is evaluated as a         *)
(* success.                                                                 *)

CoinsPerBubbleInputs == {10}    \* coins_per_bubble of SessionCreate (its default)

\* graph_json as the session keeps it: of a node, its id
GraphJson(g) == [start_node |-> g.start_node, nodes |-> IdsOf(g.nodes), edges |-> g.edges]

\* POST /sessions/: the graph is validated, the session and one BubbleNode row
\* for each node are stored
CreateSession(coins_per_bubble) ==
    /\ last.op = "none"
    /\ stack = <<>>
    /\ LET validation == validate_graph(graph_data) IN
       IF ~validation.is_valid
       THEN /\ last' = Call("create_session", 0, 0, <<>>, None, Raised("Invalid graph"))
            /\ UNCHANGED <<session, bubble_nodes>>
       ELSE /\ session' = [graph_json |-> GraphJson(graph_data)]
            /\ bubble_nodes' =
                  [n \in Range(IdsOf(graph_data.nodes)) |->
                      LET node == CHOOSE node \in Range(graph_data.nodes) : node.id = n
                      IN  Bubble(node.type, coins_per_bubble, NoneStr, <<>>)]
            /\ last' = Call("create_session", 0, 0, <<>>, None,
                            [kind |-> "session", total_bubbles |-> Len(graph_data.nodes)])
    /\ UNCHANGED <<graph_data, stack, paths, student_states, coin_transactions, clock,
                   requests>>

\* POST /sessions/{session_id}/bubbles for a node that has a row: the row is
\* given the expected output and the hints of the request
CreateBubbleNode(node_id, expected_output, hints) ==
    /\ node_id \in DOMAIN bubble_nodes
    /\ bubble_nodes[node_id].expected_output = NoneStr
    /\ bubble_nodes' = [bubble_nodes EXCEPT ![node_id].expected_output = expected_output,
                                            ![node_id].hints = hints]
    /\ last' = Call("create_bubble_node", 0, 0, <<>>, node_id,
                    [kind |-> "bubble", bubble |-> bubble_nodes'[node_id]])
    /\ UNCHANGED <<graph_data, stack, paths, session, student_states, coin_transactions,
                   clock, requests>>

\* the student starts the session that was created
FollowStart(student_id) ==
    /\ session.graph_json # NoGraph
    /\ Matching(student_id) = {}
    /\ StartSession(student_id)

\* the student answers the node the state is at, and the answer is a success
FollowAdvance(student_id, student_response, code_output) ==
    /\ Matching(student_id) # {}
    /\ \E i \in Matching(student_id) :
          LET state == student_states[i] IN
          /\ ~state.is_completed
          /\ state.current_node_id \in DOMAIN bubble_nodes
          /\ evaluate_response(bubble_nodes[state.current_node_id], student_response,
                               code_output).success
          /\ AdvanceBubble(student_id, state.current_node_id, student_response,
                           code_output, <<>>)

\* the bubbles that have no successful answer until they are given an
\* expected output
QuizNodes == {n \in DOMAIN bubble_nodes : bubble_nodes[n].type = "quiz"}

FollowNext ==
    \/ \E from_node \in Range(NodeNames), to_node \in Range(NodeNames) :
          AddEdge(from_node, to_node)
    \/ \E coins_per_bubble \in CoinsPerBubbleInputs : CreateSession(coins_per_bubble)
    \/ \E n \in QuizNodes : CreateBubbleNode(n, Lower(LongResponse), <<"h1">>)
    \/ \E s \in Students : FollowStart(s)
    \/ \E s \in Students : FollowAdvance(s, LongResponse, <<"b">>)

SpecFollow == PathsInit /\ [][FollowNext]_vars

-----------------------------------------------------------------------------
(* Properties *)

\* the call in `last` was an advance that evaluated the response as successful
AdvanceSucceeded ==
    /\ last.op = "advance"
    /\ last.result.kind = "response"
    /\ last.result.success

\* the row the call in `last` worked on, before and after the call
Before == last.pre[1]
After == student_states[last.row]

OutgoingEdges(node_id) ==
    {k \in DOMAIN session.graph_json.edges :
        session.graph_json.edges[k].from_node = node_id}

\* C1: a successful advance for a node that is already in completed_nodes leaves
\* total_coins and completion_percentage as they were.
C1_IdempotentCompletion ==
    (AdvanceSucceeded /\ last.node_id \in Range(Before.completed_nodes))
        => /\ After.total_coins = Before.total_coins
           /\ After.completion_percentage = Before.completion_percentage

C1_Witness ==
    /\ AdvanceSucceeded
    /\ last.node_id \in Range(Before.completed_nodes)
    /\ ~Before.is_completed
    /\ Before.total_coins > 0

C3_OneStatePerKey ==
    \A s \in Students : Cardinality(Matching(s)) <= 1

\* C4: once completed_at is set, no later step changes any field of that row,
\* and no row of that (student, session) is in progress afterwards.
C4_CompletedIsTerminal ==
    [][\A i \in DOMAIN student_states :
          student_states[i].completed_at # NoTime =>
              /\ student_states'[i] = student_states[i]
              /\ \A j \in DOMAIN student_states' :
                    student_states'[j].student_id = student_states[i].student_id
                        => student_states'[j].is_completed]_vars

\* the successful advance calls of the current batch for one row and node
SucceededCalls(i, node_id) ==
    {w \in DOMAIN requests :
        /\ requests[w].pc = "done"
        /\ requests[w].op = "advance"
        /\ requests[w].row = i
        /\ requests[w].node_id = node_id
        /\ requests[w].result.kind = "response"
        /\ requests[w].result.success}

\* C5: when concurrent advance calls succeed for the same node, which was not
\* completed before them, the reward is credited once however their steps
\* interleave: total_coins rises by coin_reward and one coin transaction is
\* recorded.
C5_CreditedOnce ==
    \A i \in DOMAIN student_states, n \in DOMAIN bubble_nodes :
        LET calls == SucceededCalls(i, n)
            fresh == {w \in calls : n \notin Range(requests[w].pre[1].completed_nodes)}
        IN  (calls = DOMAIN requests /\ Cardinality(calls) >= 2 /\ fresh # {})
                => LET w == CHOOSE w \in fresh : TRUE
                       reward == bubble_nodes[n].coin_reward
                   IN  /\ student_states[i].total_coins
                            = requests[w].pre[1].total_coins + reward
                       /\ Len(coin_transactions)
                            = requests[w].ledger + (IF reward > 0 THEN 1 ELSE 0)

\* the failing advance calls of the current batch for one row and node
FailedCalls(i, node_id) ==
    {w \in DOMAIN requests :
        /\ requests[w].pc = "done"
        /\ requests[w].op = "advance"
        /\ requests[w].row = i
        /\ requests[w].node_id = node_id
        /\ requests[w].result.kind = "response"
        /\ ~requests[w].result.success
        /\ requests[w].result.feedback # "Session already completed"}

\* C6: when k failing advance calls for one node have run, in any interleaving,
\* failed_attempts[node] is exactly k higher than before the first of them.
C6_NoLostFailure ==
    \A i \in DOMAIN student_states, n \in NodeIds :
        LET calls == FailedCalls(i, n)
            before == CHOOSE v \in {FailedAttempts(requests[w].pre[1], n) : w \in calls} :
                          \A w \in calls : v <= FailedAttempts(requests[w].pre[1], n)
        IN  (Quiescent /\ calls # {})
                => FailedAttempts(student_states[i], n) = before + Cardinality(calls)

\* C7: total_coins of a row never decreases, and it increases only in an
\* advance that appends a node to completed_nodes that was not in it.
C7_CoinsMonotone ==
    [][\A i \in DOMAIN student_states :
          LET old == student_states[i]
              new == student_states'[i]
          IN  /\ new.total_coins >= old.total_coins
              /\ new.total_coins > old.total_coins =>
                    /\ last'.op = "advance"
                    /\ last'.row = i
                    /\ last'.node_id \notin Range(old.completed_nodes)
                    /\ new.completed_nodes = Append(old.completed_nodes, last'.node_id)]_vars

C7_Witness ==
    /\ AdvanceSucceeded
    /\ After.total_coins > Before.total_coins
    /\ Before.total_coins > 0

\* C8: advance on a completed StudentState is rejected: success false, no next
\* node, no coins earned, and the row is left exactly as it was.
C8_RejectedWhenCompleted ==
    (last.op = "advance" /\ last.row # 0 /\ Before.is_completed)
        => /\ last.result.kind = "response"
           /\ ~last.result.success
           /\ last.result.next_node_id = None
           /\ last.result.coins_earned = 0
           /\ After = Before

C8_Witness ==
    /\ last.op = "advance"
    /\ last.row # 0
    /\ Before.is_completed
    /\ last.node_id \in DOMAIN bubble_nodes

\* C9: after a successful advance for node n, the state is completed (and
\* completed_at stamped, is_session_complete returned) when n has no outgoing
\* edge; otherwise it stays in progress at the target of the first declared
\* outgoing edge of n, which is the next_node_id returned.
C9_NextOrComplete ==
    AdvanceSucceeded =>
        LET out == OutgoingEdges(last.node_id) IN
        IF out = {}
        THEN /\ After.is_completed
             /\ After.completed_at # NoTime
             /\ After.completed_at = After.last_activity_at
             /\ last.result.is_session_complete
        ELSE LET first == CHOOSE k \in out : \A m \in out : k <= m
                 target == session.graph_json.edges[first].to_node
             IN  /\ ~After.is_completed
                 /\ After.completed_at = NoTime
                 /\ ~last.result.is_session_complete
                 /\ After.current_node_id = target
                 /\ last.result.next_node_id = target

\* a session completed at a dead end after passing a branching node
C9_Witness ==
    /\ AdvanceSucceeded
    /\ OutgoingEdges(last.node_id) = {}
    /\ After.is_completed
    /\ \E n \in Range(After.completed_nodes) : Cardinality(OutgoingEdges(n)) >= 2

\* C10: a successful advance on a node not yet in completed_nodes adds that
\* node, and nothing else, to completed_nodes, and raises total_coins by the
\* node's coin_reward.
C10_CompletionCredited ==
    (AdvanceSucceeded /\ last.node_id \notin Range(Before.completed_nodes))
        => /\ After.completed_nodes = Append(Before.completed_nodes, last.node_id)
           /\ After.total_coins = Before.total_coins + bubble_nodes[last.node_id].coin_reward

C10_Witness ==
    /\ AdvanceSucceeded
    /\ last.node_id \notin Range(Before.completed_nodes)
    /\ Before.completed_nodes # <<>>
    /\ bubble_nodes[last.node_id].coin_reward > 0

\* the call in `last` was an advance that reached _evaluate_response
AdvanceEvaluated ==
    /\ last.op = "advance"
    /\ last.request # NoRequest

\* C11: on a concept, demo or summary node the evaluation succeeds exactly when
\* the response is non-empty (a response of white space counts as empty, as it
\* does on a concept node).
C11_AcknowledgedIffNonEmpty ==
    (AdvanceEvaluated
        /\ bubble_nodes[last.node_id].type \in {"concept", "demo", "summary"})
        => (last.result.success <=> Strip(last.request.student_response) # <<>>)

C13_ResumeOnly ==
    [][\A s \in Students :
          (/\ \E i \in Matching(s) : ~student_states[i].is_completed
           /\ last'.op = "start_session"
           /\ last'.student_id = s
           /\ clock' = clock + 1)
          => \E i \in Matching(s) :
                /\ ~student_states[i].is_completed
                /\ student_states' =
                     [student_states EXCEPT ![i].last_activity_at = clock']
                /\ last'.row = i
                /\ last'.result = Returned(student_states'[i])]_vars

\* C14: start_session for a student with no StudentState creates one at the
\* start node of the graph, with no completed node, no failed attempt, no
\* coins, percentage 0 and not completed, and returns it.
C14_FreshStart ==
    (last.op = "start_session" /\ last.pre = <<>>)
        => /\ After.current_node_id = session.graph_json.start_node
           /\ After.completed_nodes = <<>>
           /\ DOMAIN After.failed_attempts = {}
           /\ After.total_coins = 0
           /\ After.completion_percentage.num = 0
           /\ ~After.is_completed
           /\ After.completed_at = NoTime
           /\ Matching(last.student_id) = {last.row}
           /\ last.result = Returned(After)

C14_Witness ==
    /\ last.op = "start_session"
    /\ last.pre = <<>>
    /\ After.current_node_id \in Range(session.graph_json.nodes)
    /\ Len(student_states) = 1

\* C15: an advance on an in-progress state for a node_id that is not a node of
\* the graph raises not-found and leaves the StudentState as it was.
C15_UnknownNodeNotFound ==
    (last.op = "advance" /\ last.row # 0 /\ ~Before.is_completed
        /\ last.node_id \notin Range(session.graph_json.nodes))
        => /\ last.result = Raised("Bubble node not found")
           /\ After = Before

\* C16: every node id in completed_nodes and every key of failed_attempts of a
\* StudentState is a node of the session graph.
C16_ProgressWithinGraph ==
    \A i \in DOMAIN student_states :
        (Range(student_states[i].completed_nodes)
            \cup DOMAIN student_states[i].failed_attempts)
            \subseteq Range(session.graph_json.nodes)

\* the call in `last` validated graph_data
Validated ==
    /\ last.op = "validate_graph"
    /\ last.result.kind = "validation"

\* the nodes joined to a node of S by an edge from it
Successors(g, S) ==
    {g.edges[k].to_node : k \in {k \in DOMAIN g.edges : g.edges[k].from_node \in S}}

\* the nodes to which a directed path from a node of S exists, S included
RECURSIVE ReachableFrom(_, _)
ReachableFrom(g, S) ==
    LET T == S \cup Successors(g, S) IN
    IF T = S THEN S ELSE ReachableFrom(g, T)

\* some edge lies on a directed cycle
HasDirectedCycle(g) ==
    \E k \in DOMAIN g.edges :
        g.edges[k].from_node \in ReachableFrom(g, {g.edges[k].to_node})

\* C17: for a graph with at least one node, validate_graph reports has_cycles
\* exactly when the edges contain a directed cycle.
C17_CycleDetection ==
    (Validated /\ Len(graph_data.nodes) >= 1)
        => (last.result.has_cycles <=> HasDirectedCycle(graph_data))

\* a cycle of two or more nodes that the start node does not reach
C17_Witness ==
    /\ Validated
    /\ last.result.has_cycles
    /\ \A k \in DOMAIN graph_data.edges :
          /\ graph_data.edges[k].from_node # graph_data.edges[k].to_node
          /\ graph_data.edges[k].from_node
                \notin ReachableFrom(graph_data, {graph_data.start_node})
    /\ graph_data.start_node \in Range(IdsOf(graph_data.nodes))

\* C18: for a graph with at least one node, unreachable_nodes is the set of
\* nodes to which no directed path from the start node leads.
C18_Reachability ==
    (Validated /\ Len(graph_data.nodes) >= 1)
        => last.result.unreachable_nodes
             = Range(IdsOf(graph_data.nodes))
                 \ ReachableFrom(graph_data, {graph_data.start_node})

\* a node other than the start node is reached, and an unreachable node has an
\* edge into the reached part
C18_Witness ==
    /\ Validated
    /\ \E n \in Range(IdsOf(graph_data.nodes)) :
          /\ n \notin last.result.unreachable_nodes
          /\ n # graph_data.start_node
    /\ \E k \in DOMAIN graph_data.edges :
          /\ graph_data.edges[k].from_node \in last.result.unreachable_nodes
          /\ graph_data.edges[k].to_node \notin last.result.unreachable_nodes

\* C19: is_valid is true exactly when the graph has a node, its start node is
\* one of its nodes, every edge joins nodes of the graph and no edge is a
\* self-loop; cycles, unreachable nodes, dead ends and content warnings do not
\* matter.
C19_IsValid ==
    Validated =>
        LET node_ids == Range(IdsOf(graph_data.nodes)) IN
        last.result.is_valid <=>
            /\ Len(graph_data.nodes) >= 1
            /\ graph_data.start_node \in node_ids
            /\ \A k \in DOMAIN graph_data.edges :
                  /\ graph_data.edges[k].from_node \in node_ids
                  /\ graph_data.edges[k].to_node \in node_ids
                  /\ graph_data.edges[k].from_node # graph_data.edges[k].to_node

\* a valid graph with a cycle, an unreachable node and content warnings
C19_Witness ==
    /\ Validated
    /\ last.result.is_valid
    /\ last.result.has_cycles
    /\ last.result.unreachable_nodes # {}
    /\ \E i \in DOMAIN last.result.warnings :
          last.result.warnings[i].text = "No concept bubbles found"

\* get_valid_paths returned its list
PathsReturned ==
    /\ last.op = "get_valid_paths"
    /\ last.result.kind = "paths"

\* C20: on every graph, with cycles and self-loops or without, get_valid_paths
\* comes to its return and returns a list of paths none of which is longer
\* than the number of nodes.
C20_PathsTerminate ==
    <>(/\ PathsReturned
       /\ \A i \in DOMAIN last.result.paths :
             Len(last.result.paths[i])
                <= Cardinality(Range(IdsOf(graph_data.nodes)) \cup {graph_data.start_node}))

\* returned on a graph where the start node reaches a self-loop and a longer cycle
C20_Witness ==
    /\ PathsReturned
    /\ \E k \in DOMAIN graph_data.edges :
          /\ graph_data.edges[k].from_node = graph_data.edges[k].to_node
          /\ graph_data.edges[k].from_node
                \in ReachableFrom(graph_data, {graph_data.start_node})
    /\ \E k \in DOMAIN graph_data.edges :
          /\ graph_data.edges[k].from_node # graph_data.edges[k].to_node
          /\ graph_data.edges[k].from_node
                \in ReachableFrom(graph_data, {graph_data.edges[k].to_node})
          /\ graph_data.edges[k].from_node
                \in ReachableFrom(graph_data, {graph_data.start_node})

\* the sequences of names of g, the start node among them, with no name twice
SimpleSequences(g) ==
    LET names == Range(IdsOf(g.nodes)) \cup {g.start_node}
    IN  {p \in UNION {[1..n -> names] : n \in 1..Cardinality(names)} :
            \A i, j \in DOMAIN p : i # j => p[i] # p[j]}

\* the simple paths of g from its start node to a node with no outgoing edge
SimplePathsToDeadEnds(g) ==
    {p \in SimpleSequences(g) :
        /\ p[1] = g.start_node
        /\ \A i \in 1..(Len(p) - 1) : Edge(p[i], p[i + 1]) \in Range(g.edges)
        /\ \A k \in DOMAIN g.edges : g.edges[k].from_node # p[Len(p)]}

\* C21: the paths get_valid_paths returns are, as a set, exactly the simple
\* paths (no node twice, consecutive nodes joined by an edge) from the start
\* node to a node with no outgoing edge.
C21_SimplePathsToDeadEnds ==
    PathsReturned => Range(last.result.paths) = SimplePathsToDeadEnds(graph_data)

\* two paths of different lengths are returned
C21_Witness ==
    /\ PathsReturned
    /\ \E i, j \in DOMAIN last.result.paths :
          /\ Len(last.result.paths[i]) = 3
          /\ Len(last.result.paths[j]) = 2

\* get_session_analytics returned its roll-up of student_states
AnalyticsReturned ==
    /\ last.op = "get_session_analytics"
    /\ last.result.kind = "analytics"

\* the node ids of challenging_bubbles, in its order
Listed == [i \in DOMAIN last.result.challenging_bubbles |->
             last.result.challenging_bubbles[i].node_id]

\* the sum of failed_attempts[node_id] over all rows
TotalAttempts(node_id) == SumAttempts(student_states, node_id, Len(student_states))

\* the rows that recorded a failed attempt on node_id
Struggled(node_id) ==
    {i \in DOMAIN student_states : node_id \in DOMAIN student_states[i].failed_attempts}

\* C22: challenging_bubbles lists, in descending order of mean, the (up to
\* five) nodes of highest mean failed_attempts among those whose mean is at
\* least 1.5, the mean being taken across all StudentStates of the session.
C22_ChallengingNodes ==
    AnalyticsReturned =>
        LET rows == Len(student_states)
            qualifying == {n \in Range(ChallengeNodes) : 2 * TotalAttempts(n) >= 3 * rows}
        IN  /\ Range(Listed) \subseteq qualifying
            /\ Cardinality(Range(Listed)) = Len(Listed)
            /\ Len(Listed) = IF Cardinality(qualifying) < TopChallenging
                              THEN Cardinality(qualifying) ELSE TopChallenging
            /\ \A n \in qualifying \ Range(Listed), m \in Range(Listed) :
                  TotalAttempts(n) <= TotalAttempts(m)
            /\ \A i, j \in DOMAIN Listed :
                  i < j => TotalAttempts(Listed[i]) >= TotalAttempts(Listed[j])

\* the mean of failed_attempts[node_id] across the rows that have the key,
\* rounded to hundredths
RoundedMean(node_id) == Round2(TotalAttempts(node_id), Cardinality(Struggled(node_id)))

\* C22, amended: the mean is taken across the StudentStates that recorded a
\* failed attempt on the node and must be greater than 1.5; the order is that
\* of the mean rounded to two decimals.
C22_ChallengingAmongStruggling ==
    AnalyticsReturned =>
        LET qualifying == {n \in Range(ChallengeNodes) :
                              /\ Struggled(n) # {}
                              /\ 2 * TotalAttempts(n) > 3 * Cardinality(Struggled(n))}
        IN  /\ Range(Listed) \subseteq qualifying
            /\ Cardinality(Range(Listed)) = Len(Listed)
            /\ Len(Listed) = IF Cardinality(qualifying) < TopChallenging
                              THEN Cardinality(qualifying) ELSE TopChallenging
            /\ \A n \in qualifying \ Range(Listed), m \in Range(Listed) :
                  RoundedMean(n) <= RoundedMean(m)
            /\ \A i, j \in DOMAIN Listed :
                  i < j => RoundedMean(Listed[i]) >= RoundedMean(Listed[j])

\* two rows; a node whose mean is exactly 1.5 is left out, a node is listed
\* that only one of the rows failed on, and bubbles of different means are listed
C22_Witness ==
    /\ AnalyticsReturned
    /\ Len(student_states) = 2
    /\ \E n \in Range(ChallengeNodes) \ Range(Listed) :
          /\ Cardinality(Struggled(n)) = 2
          /\ 2 * TotalAttempts(n) = 3 * 2
    /\ \E n \in Range(Listed) :
          /\ Cardinality(Struggled(n)) = 1
          /\ 2 * TotalAttempts(n) < 3 * 2
    /\ \E i, j \in DOMAIN Listed : RoundedMean(Listed[i]) > RoundedMean(Listed[j])

\* the call in `last` was an advance whose response was evaluated as a failure
AdvanceFailed ==
    /\ AdvanceEvaluated
    /\ last.result.kind = "response"
    /\ ~last.result.success

\* C23: the k-th failed attempt on a node with n >= 1 hints returns the hint
\* at position min(k, n): a hint is returned on every failure, the last one
\* again once the list has been used up.
C23_HintCapped ==
    (AdvanceFailed /\ bubble_nodes[last.node_id].hints # <<>>)
        => LET hints == bubble_nodes[last.node_id].hints
               k == FailedAttempts(After, last.node_id)
           IN  last.result.hints_available
                 = <<hints[IF k < Len(hints) THEN k ELSE Len(hints)]>>

\* C24: a failed advance on node n raises failed_attempts[n] by exactly 1 (from
\* 0 when the key is absent) and leaves completed_nodes, total_coins,
\* completion_percentage, current_node_id, the completion status and the
\* failed_attempts of every other node as they were.
C24_FailureFrame ==
    AdvanceFailed =>
        /\ FailedAttempts(After, last.node_id) = FailedAttempts(Before, last.node_id) + 1
        /\ last.node_id \notin DOMAIN Before.failed_attempts
              => After.failed_attempts[last.node_id] = 1
        /\ DOMAIN After.failed_attempts = DOMAIN Before.failed_attempts \cup {last.node_id}
        /\ \A n \in DOMAIN Before.failed_attempts \ {last.node_id} :
              After.failed_attempts[n] = Before.failed_attempts[n]
        /\ After.completed_nodes = Before.completed_nodes
        /\ After.total_coins = Before.total_coins
        /\ After.completion_percentage = Before.completion_percentage
        /\ After.current_node_id = Before.current_node_id
        /\ After.is_completed = Before.is_completed
        /\ After.completed_at = Before.completed_at

\* a first failure on a node, in a state that has a completed node, coins and
\* failed attempts on another node
C24_Witness ==
    /\ AdvanceFailed
    /\ last.node_id \notin DOMAIN Before.failed_attempts
    /\ DOMAIN Before.failed_attempts # {}
    /\ Before.completed_nodes # <<>>
    /\ Before.total_coins > 0

\* C25: every advance call on a StudentState, whatever its outcome, updates
\* last_activity_at and adds the submitted time_spent (0 when omitted) to
\* total_time_spent.
C25_AlwaysAccumulates ==
    (last.op = "advance" /\ last.row # 0)
        => /\ After.last_activity_at = clock
           /\ After.total_time_spent = Before.total_time_spent + TimeSpent(last.time_spent)

\* C25, amended: an advance call that evaluates the response, successfully or
\* not, updates last_activity_at and adds the submitted time_spent (0 when
\* omitted); no other step changes total_time_spent, and a new row starts at
\* 0: the total_time_spent of a row is the sum of the time_spent of the
\* evaluated advance calls made on it.
C25_EvaluatedAccumulates ==
    [][/\ \A i \in DOMAIN student_states :
             LET evaluated == /\ last'.op = "advance"
                              /\ last'.request # NoRequest
                              /\ last'.row = i
                              /\ clock' = clock + 1
             IN  /\ student_states'[i].total_time_spent
                       = student_states[i].total_time_spent
                           + (IF evaluated THEN TimeSpent(last'.time_spent) ELSE 0)
                 /\ evaluated => student_states'[i].last_activity_at = clock'
       /\ \A i \in DOMAIN student_states' \ DOMAIN student_states :
             student_states'[i].total_time_spent = 0]_vars

\* a failed advance that adds time to time already spent, after one that sent none
C25_Witness ==
    /\ AdvanceFailed
    /\ last.time_spent = <<1>>
    /\ Before.total_time_spent = 1
    /\ After.total_time_spent = 2
    /\ Before.last_activity_at > Before.started_at + 1

\* C26: the coins_earned of an advance result is the amount by which the call
\* raised total_coins; a repeated success on a completed node reports 0.
C26_CoinsEarnedIsIncrease ==
    (last.op = "advance" /\ last.row # 0 /\ last.result.kind = "response")
        => last.result.coins_earned = After.total_coins - Before.total_coins

\* C27: an advance adds a node to completed_nodes, or completes the session,
\* only when the node_id submitted is the current_node_id the state had when
\* the call was made.
C27_NoSkippingAhead ==
    (/\ last.op = "advance"
     /\ last.row # 0
     /\ \/ After.completed_nodes # Before.completed_nodes
        \/ After.is_completed /\ ~Before.is_completed)
        => last.node_id = Before.current_node_id

\* the call in `last` was a successful advance on a node that was in
\* completed_nodes already
RepeatedSuccess ==
    /\ AdvanceSucceeded
    /\ last.node_id \in Range(Before.completed_nodes)

\* C28: a successful advance on a node already in completed_nodes leaves
\* current_node_id and the completion status as they were.
C28_RepeatKeepsPosition ==
    RepeatedSuccess
        => /\ After.current_node_id = Before.current_node_id
           /\ After.is_completed = Before.is_completed

\* C28, amended: such an advance leaves the state in progress and puts
\* current_node_id at the target of the first declared outgoing edge of the
\* node submitted, wherever the student was.
C28_RepeatRepositions ==
    RepeatedSuccess
        => LET out == OutgoingEdges(last.node_id) IN
           /\ out # {}
           /\ ~After.is_completed
           /\ After.completed_at = NoTime
           /\ \E k \in out :
                 /\ \A m \in out : k <= m
                 /\ After.current_node_id = session.graph_json.edges[k].to_node

\* the student is moved by re-submitting a completed node
C28_Witness ==
    /\ RepeatedSuccess
    /\ After.current_node_id # Before.current_node_id
    /\ After.current_node_id \in Range(Before.completed_nodes)

\* the sum of the amounts of the first k coin transactions that award coins to
\* the student in the session
RECURSIVE Awarded(_, _)
Awarded(student_id, k) ==
    IF k = 0 THEN 0
    ELSE Awarded(student_id, k - 1)
         + (IF /\ coin_transactions[k].student_id = student_id
               /\ coin_transactions[k].session_id = SessionId
               /\ coin_transactions[k].transaction_type = "earned"
            THEN coin_transactions[k].amount ELSE 0)

\* C29: in every state reached by start_session and advance calls, the coin
\* transactions recorded for a (student, session) add up to the total_coins of
\* the StudentState of that key (of one of its rows, should it have several).
C29_LedgerConsistency ==
    \A s \in Students :
        Matching(s) # {}
            => \E i \in Matching(s) :
                  student_states[i].total_coins = Awarded(s, Len(coin_transactions))

\* the nodes met from `node` on by following the first declared outgoing edge
\* of each, up to a node with no outgoing edge or back to a node already met
RECURSIVE FirstEdgeWalk(_, _, _)
FirstEdgeWalk(g, node, met) ==
    LET out == {k \in DOMAIN g.edges : g.edges[k].from_node = node} IN
    IF node \in Range(met) THEN [path |-> met, returns |-> TRUE]
    ELSE IF out = {} THEN [path |-> Append(met, node), returns |-> FALSE]
    ELSE FirstEdgeWalk(g, g.edges[CHOOSE k \in out : \A m \in out : k <= m].to_node,
                       Append(met, node))

\* successful advances made: the student's calls are start_session, once, and
\* advances that succeed, and each of them reads the clock once
SuccessfulAdvances == clock - 1

\* C30: on a graph that validate_graph accepts, the student who answers the
\* node in current_node_id successfully each time is COMPLETED once as many
\* successful advances as the graph has nodes were made.
C30_ProgressGuarantee ==
    \A i \in DOMAIN student_states :
        SuccessfulAdvances >= Len(session.graph_json.nodes)
            => student_states[i].is_completed

\* C30, amended: the student completes the nodes along the first declared
\* outgoing edges from the start node, and is COMPLETED exactly when the node
\* at the end of that walk, one with no outgoing edge, has been answered:
\* after as many successful advances as the walk has nodes, at most |nodes|.
\* When the walk comes back to a node it has met, the student is never
\* COMPLETED.
C30_ProgressAlongFirstEdges ==
    \A i \in DOMAIN student_states :
        LET state == student_states[i]
            walk == FirstEdgeWalk(session.graph_json, session.graph_json.start_node, <<>>)
        IN  IF walk.returns
            THEN ~state.is_completed
            ELSE /\ Len(walk.path) <= Len(session.graph_json.nodes)
                 /\ SuccessfulAdvances <= Len(walk.path)
                 /\ state.completed_nodes = SubSeq(walk.path, 1, SuccessfulAdvances)
                 /\ state.is_completed <=> SuccessfulAdvances = Len(walk.path)

\* completed after two nodes, on a graph that has a cycle off the walk
C30_Witness ==
    /\ student_states # <<>>
    /\ student_states[1].is_completed
    /\ Len(student_states[1].completed_nodes) = 2
    /\ HasDirectedCycle(session.graph_json)

=============================================================================
